---------------------------- MODULE Spec2Model ----------------------------
(***************************************************************************)
(* Model of the streaming XML tokenizer of src/lib/Saxophone.js.           *)
(*                                                                         *)
(* A string is a sequence of one-character strings and positions are       *)
(* 0-based as in the source.  The Writable base class is represented by    *)
(* the calls it makes into the tokenizer (_write for each chunk written,   *)
(* _final once the stream is ended) and by what the tokenizer hands back:  *)
(* every this.emit(...) is appended to `events`, every callback(err) is    *)
(* appended as an "error" event and the callback() that completes _final   *)
(* as the "finish" event.  The stream emits 'error' synchronously inside   *)
(* callback(err), so what is done after that call is a step of its own     *)
(* (Return); the emit throws when nobody listens to 'error' or when a      *)
(* listener throws, and then what comes after the call is never done       *)
(* (Throw).  The stream calls _final on a later turn of the event loop     *)
(* than the one end() ran in (Final).                                      *)
(***************************************************************************)
EXTENDS Integers, Sequences, FiniteSets, TLC

VARIABLES
    doc,         \* the whole text the writer is going to supply
    rest,        \* the part of doc not yet written
    _waiting,    \* Saxophone#_waiting: Null or [token, data]
    _tagStack,   \* Saxophone#_tagStack
    events,      \* everything emitted so far, in order
    ending,      \* end() has been called on the stream
    finalized,   \* the stream has called _final
    unwinding,   \* the calls of callback(err) that have not returned yet and
                 \* have something left to do afterwards, innermost last:
                 \* the stream call ("write", "end", "final") each was made
                 \* in and whether line 354 is what follows it
    argument,    \* the string handed to a static helper
    returned     \* what the helper's call produced, NotCalled before it

vars ==
    <<doc, rest, _waiting, _tagStack, events, ending, finalized, unwinding,
      argument, returned>>

-----------------------------------------------------------------------------
(* Bounds of the model.                                                    *)

\* A document is the concatenation of at most MaxPieces pieces.
MaxPieces == 3

\* The interior of a single-tag document has at most MaxTagLen characters.
MaxTagLen == 3

-----------------------------------------------------------------------------
(* JavaScript values and string primitives.                                *)

\* The value of an absent property, of input[i] past the end, of [].pop().
Undefined == "undefined"

\* this._waiting = null
Null == [token |-> "null"]

\* The outcome of a call: none yet, `return value`, `throw new Error(message)`.
NotCalled == [state |-> "none"]

Returns(value) == [state |-> "returned", value |-> value]

Throws(message) == [state |-> "thrown", message |-> message]

Min(a, b) == IF a < b THEN a ELSE b

\* input[i]
CharAt(input, i) == IF i >= 0 /\ i < Len(input) THEN input[i + 1] ELSE Undefined

\* input.slice(from, to), for from >= 0 and to >= 0
Slice(input, from, to) == SubSeq(input, from + 1, Min(to, Len(input)))

\* input.slice(from)
SliceFrom(input, from) == Slice(input, from, Len(input))

\* input.indexOf(pattern, from)
IndexOf(input, pattern, from) ==
    IF pattern = <<>> THEN Min(from, Len(input))
    ELSE LET hits == {i \in from .. (Len(input) - Len(pattern)) :
                         SubSeq(input, i + 1, i + Len(pattern)) = pattern}
         IN  IF hits = {} THEN -1
             ELSE CHOOSE i \in hits : \A j \in hits : i <= j

\* The characters the regular expression \s matches: the white space and line
\* terminator characters of the language, that is TAB, LF, VT (U+000B), FF,
\* CR, SPACE, U+00A0, U+1680, U+2000 to U+200A, U+2028, U+2029, U+202F,
\* U+205F, U+3000 and U+FEFF.  parseInt skips the same characters.
RegexWhitespace ==
    {" ", "\t", "\n", "\r", "\f", "U+11", "U+160", "U+5760",
     "U+8192", "U+8193", "U+8194", "U+8195", "U+8196", "U+8197", "U+8198",
     "U+8199", "U+8200", "U+8201", "U+8202",
     "U+8232", "U+8233", "U+8239", "U+8287", "U+12288", "U+65279"}

\* input.search(/\s/)
SearchWhitespace(input) ==
    LET hits == {i \in 0 .. (Len(input) - 1) : input[i + 1] \in RegexWhitespace}
    IN  IF hits = {} THEN -1
        ELSE CHOOSE i \in hits : \A j \in hits : i <= j

\* array.join(sep)
RECURSIVE Join(_, _)
Join(array, sep) ==
    IF array = <<>> THEN <<>>
    ELSE IF Len(array) = 1 THEN array[1]
    ELSE array[1] \o sep \o Join(Tail(array), sep)

\* The value array.pop() returns: the last element, undefined on an empty
\* array.  Elements are strings (sequences), so undefined is kept as the
\* one-element sequence holding Undefined, which no string of characters equals.
Pop(array) == IF array = <<>> THEN <<Undefined>> ELSE array[Len(array)]

\* The array after array.pop()
Popped(array) ==
    IF array = <<>> THEN <<>> ELSE SubSeq(array, 1, Len(array) - 1)

\* `${value}` : a string is itself, undefined prints as the word
TemplateString(value) ==
    IF value = <<Undefined>>
    THEN <<"u", "n", "d", "e", "f", "i", "n", "e", "d">>
    ELSE value

-----------------------------------------------------------------------------
(* Events.  new Error(prefix + detail) is kept as the pair of its literal  *)
(* part and its interpolated part.                                         *)

TextNode(contents) == [event |-> "text", contents |-> contents]
CDATANode(contents) == [event |-> "cdata", contents |-> contents]
CommentNode(contents) == [event |-> "comment", contents |-> contents]
ProcessingInstructionNode(contents) ==
    [event |-> "processinginstruction", contents |-> contents]
TagOpenNode(name, attrs, isSelfClosing) ==
    [event |-> "tagopen", name |-> name, attrs |-> attrs,
     isSelfClosing |-> isSelfClosing]
TagCloseNode(name) == [event |-> "tagclose", name |-> name]
Error(message, detail) ==
    [event |-> "error", message |-> message, detail |-> detail]
Finish == [event |-> "finish"]

NoError == [event |-> "none"]

-----------------------------------------------------------------------------
(* Saxophone#_wait, #_unwait, #_handleTagOpening.                          *)

_wait(token, data) == [token |-> token, data |-> data]

\* Variant of _unwait that resets _waiting and returns nothing.
_unwait_withoutData(waiting) == <<>>

\* The data _unwait returns; it also resets _waiting to null.
_unwait(waiting) == IF waiting = Null THEN <<>> ELSE waiting.data

\* Variant of _handleTagOpening that forgets the isSelfClosing test.
_handleTagOpening_pushAlways(tagStack, node) == Append(tagStack, node.name)

\* _tagStack after _handleTagOpening(node)
_handleTagOpening(tagStack, node) ==
    IF ~node.isSelfClosing THEN Append(tagStack, node.name) ELSE tagStack

-----------------------------------------------------------------------------
(* Saxophone#_parseChunk.  The while loop is the recursive operator        *)
(* ParseLoop and one iteration of its body is Iteration; each branch of    *)
(* the body is an operator that either leaves the loop (Result: a stall,   *)
(* an error) or goes on at a new cursor (Continue).  A result is what the  *)
(* call has done when it hands over to callback: the events emitted so far, *)
(* the stack, the waiting state, the argument handed to callback, and      *)
(* whether the call empties the stack once callback has returned.          *)

Result(emitted, tagStack, waiting, error) ==
    [events |-> emitted, tagStack |-> tagStack, waiting |-> waiting,
     error |-> error, emptiesStack |-> FALSE]

\* this._tagStack.length = 0; return (lines 354-355), r being what the call
\* had done when it called callback
Returned(r) ==
    [r EXCEPT !.tagStack = IF r.emptiesStack THEN <<>> ELSE @,
              !.emptiesStack = FALSE]

\* `continue`, or the end of the loop body, with the cursor at chunkPos
Continue(chunkPos, tagStack, emitted) ==
    [chunkPos |-> chunkPos, events |-> emitted, tagStack |-> tagStack]

Continues(step) == "chunkPos" \in DOMAIN step

\* CDATA section: chunkPos points at the '[' after '<!'
CDATASection(input, chunkPos, tagStack, emitted) ==
    LET pos == chunkPos + 7
        cdataClose == IndexOf(input, <<"]", "]", ">">>, pos)
    IN  IF cdataClose = -1
        THEN Result(emitted, tagStack,
                    _wait("cdata", SliceFrom(input, pos - 9)), NoError)
        ELSE Continue(cdataClose + 3, tagStack,
                       Append(emitted, CDATANode(Slice(input, pos, cdataClose))))

\* Variant of Comment that takes the first '--' as the end of the comment
\* whatever follows it.
Comment_anyCloser(input, chunkPos, tagStack, emitted) ==
    IF IndexOf(input, <<"-", "-">>, chunkPos + 2) = -1
    THEN Result(emitted, tagStack,
                _wait("comment", SliceFrom(input, chunkPos - 2)), NoError)
    ELSE Continue(IndexOf(input, <<"-", "-">>, chunkPos + 2) + 3, tagStack,
                  Append(emitted,
                         CommentNode(Slice(input, chunkPos + 2,
                                           IndexOf(input, <<"-", "-">>,
                                                   chunkPos + 2)))))

\* Variant of Comment that keeps the comment pending when it reports the
\* '--' inside it.
Comment_errorKeepsPending(input, chunkPos, tagStack, emitted) ==
    LET pos == chunkPos + 2
        commentClose == IndexOf(input, <<"-", "-">>, pos)
    IN  IF commentClose = -1
        THEN Result(emitted, tagStack,
                    _wait("comment", SliceFrom(input, pos - 4)), NoError)
        ELSE IF CharAt(input, commentClose + 2) # ">"
        THEN Result(emitted, tagStack,
                    _wait("comment", SliceFrom(input, pos - 4)),
                    Error("Unexpected -- inside comment", <<>>))
        ELSE Continue(commentClose + 3, tagStack,
                       Append(emitted,
                              CommentNode(Slice(input, pos, commentClose))))

\* Comment: chunkPos points at the first '-' after '<!'
Comment(input, chunkPos, tagStack, emitted) ==
    LET pos == chunkPos + 2
        commentClose == IndexOf(input, <<"-", "-">>, pos)
    IN  IF commentClose = -1
        THEN Result(emitted, tagStack,
                    _wait("comment", SliceFrom(input, pos - 4)), NoError)
        ELSE IF CharAt(input, commentClose + 2) # ">"
        THEN Result(emitted, tagStack, Null,
                    Error("Unexpected -- inside comment", <<>>))
        ELSE Continue(commentClose + 3, tagStack,
                       Append(emitted,
                              CommentNode(Slice(input, pos, commentClose))))

\* Variant of IsCDATAStart that requires the six characters after '[' to be
\* 'CDATA[' exactly.
IsCDATAStart_exact(input, chunkPos) ==
    /\ CharAt(input, chunkPos) = "["
    /\ Slice(input, chunkPos + 1, chunkPos + 7) = <<"C", "D", "A", "T", "A", "[">>

\* The test that opens a CDATA section (lines 254-257)
IsCDATAStart(input, chunkPos) ==
    /\ CharAt(input, chunkPos) = "["
    /\ IndexOf(<<"C", "D", "A", "T", "A", "[">>,
               Slice(input, chunkPos + 1, chunkPos + 7), 0) > -1

\* The test that opens a comment (line 280)
IsCommentStart(input, chunkPos) ==
    /\ CharAt(input, chunkPos) = "-"
    /\ CharAt(input, chunkPos + 1) = "-"

\* '<!' was read: chunkPos points right after the '!'
MarkupDeclaration(input, chunkPos, tagStack, emitted) ==
    LET nextNextChar == CharAt(input, chunkPos)
    IN  IF nextNextChar = Undefined
        THEN Result(emitted, tagStack,
                    _wait("markupDeclaration", SliceFrom(input, chunkPos - 2)),
                    NoError)
        ELSE IF IsCDATAStart(input, chunkPos)
        THEN CDATASection(input, chunkPos, tagStack, emitted)
        ELSE IF IsCommentStart(input, chunkPos)
        THEN Comment(input, chunkPos, tagStack, emitted)
        ELSE Result(emitted, tagStack, Null,
                    Error("Unrecognized sequence: <!", <<nextNextChar>>))

\* '<?' was read: chunkPos points right after the '?'
ProcessingInstruction(input, chunkPos, tagStack, emitted) ==
    LET piClose == IndexOf(input, <<"?", ">">>, chunkPos)
    IN  IF piClose = -1
        THEN Result(emitted, tagStack,
                    _wait("processinginstruction",
                          SliceFrom(input, chunkPos - 2)), NoError)
        ELSE Continue(piClose + 2, tagStack,
                       Append(emitted,
                              ProcessingInstructionNode(
                                  Slice(input, chunkPos, piClose))))

\* The closing tag does not name the tag popped from the stack (lines
\* 352-356): callback is handed the error while the stack is as pop() left
\* it, and the stack is emptied once callback has returned.
UnclosedTag(emitted, tagStack, stackedTagName) ==
    [Result(emitted, tagStack, Null,
            Error("Unclosed tag: ", TemplateString(stackedTagName)))
         EXCEPT !.emptiesStack = TRUE]

\* Variant of ClosingTag that leaves the rest of the stack in place after a
\* mismatch.
ClosingTag_keepStack(input, chunkPos, tagClose, tagStack, emitted) ==
    IF Pop(tagStack) # Slice(input, chunkPos + 1, tagClose)
    THEN Result(emitted, Popped(tagStack), Null,
                Error("Unclosed tag: ", TemplateString(Pop(tagStack))))
    ELSE Continue(tagClose + 1, Popped(tagStack),
                  Append(emitted,
                         TagCloseNode(Slice(input, chunkPos + 1, tagClose))))

\* Variant of ClosingTag that compares the name without its whitespace.
ClosingTag_trimmedName(input, chunkPos, tagClose, tagStack, emitted) ==
    LET tagName == SelectSeq(Slice(input, chunkPos + 1, tagClose),
                             LAMBDA c : c \notin RegexWhitespace)
        stackedTagName == Pop(tagStack)
    IN  IF stackedTagName # tagName
        THEN UnclosedTag(emitted, Popped(tagStack), stackedTagName)
        ELSE Continue(tagClose + 1, Popped(tagStack),
                       Append(emitted, TagCloseNode(tagName)))

\* Variant of ClosingTag that leaves the cursor on the '<' of the closing tag
\* it has read.
ClosingTag_sameCursor(input, chunkPos, tagClose, tagStack, emitted) ==
    LET tagName == Slice(input, chunkPos + 1, tagClose)
        stackedTagName == Pop(tagStack)
    IN  IF stackedTagName # tagName
        THEN UnclosedTag(emitted, Popped(tagStack), stackedTagName)
        ELSE Continue(chunkPos - 1, Popped(tagStack),
                       Append(emitted, TagCloseNode(tagName)))

\* Closing tag: input[chunkPos] is '/', the tag ends at tagClose
ClosingTag(input, chunkPos, tagClose, tagStack, emitted) ==
    LET tagName == Slice(input, chunkPos + 1, tagClose)
        stackedTagName == Pop(tagStack)
    IN  IF stackedTagName # tagName
        THEN UnclosedTag(emitted, Popped(tagStack), stackedTagName)
        ELSE Continue(tagClose + 1, Popped(tagStack),
                       Append(emitted, TagCloseNode(tagName)))

\* Variant of OpeningTag without the check of the first character of the
\* name.
OpeningTag_anyFirstCharacter(input, chunkPos, tagClose, tagStack, emitted) ==
    LET isSelfClosing == CharAt(input, tagClose - 1) = "/"
        realTagClose == IF isSelfClosing THEN tagClose - 1 ELSE tagClose
        whitespace == SearchWhitespace(SliceFrom(input, chunkPos))
        bare == TagOpenNode(Slice(input, chunkPos, realTagClose), <<>>,
                            isSelfClosing)
        withAttrs == TagOpenNode(Slice(input, chunkPos, chunkPos + whitespace),
                                 Slice(input, chunkPos + whitespace, realTagClose),
                                 isSelfClosing)
    IN  IF whitespace = -1 \/ whitespace >= tagClose - chunkPos
        THEN Continue(tagClose + 1, _handleTagOpening(tagStack, bare),
                       Append(emitted, bare))
        ELSE Continue(tagClose + 1,
                       _handleTagOpening(tagStack, withAttrs),
                       Append(emitted, withAttrs))

\* Variant of OpeningTag that leaves the '/' of a self-closing tag in the
\* slices.
OpeningTag_keepSlash(input, chunkPos, tagClose, tagStack, emitted) ==
    LET isSelfClosing == CharAt(input, tagClose - 1) = "/"
        whitespace == SearchWhitespace(SliceFrom(input, chunkPos))
        bare == TagOpenNode(Slice(input, chunkPos, tagClose), <<>>,
                            isSelfClosing)
        withAttrs == TagOpenNode(Slice(input, chunkPos, chunkPos + whitespace),
                                 Slice(input, chunkPos + whitespace, tagClose),
                                 isSelfClosing)
    IN  IF whitespace = -1 \/ whitespace >= tagClose - chunkPos
        THEN Continue(tagClose + 1, _handleTagOpening(tagStack, bare),
                       Append(emitted, bare))
        ELSE IF whitespace = 0
        THEN Result(emitted, tagStack, Null,
                    Error("Tag names may not start with whitespace", <<>>))
        ELSE Continue(tagClose + 1,
                       _handleTagOpening(tagStack, withAttrs),
                       Append(emitted, withAttrs))

\* Variant of OpeningTag whose attrs starts after the whitespace character
\* that ends the name.
OpeningTag_attrsAfterWhitespace(input, chunkPos, tagClose, tagStack, emitted) ==
    LET isSelfClosing == CharAt(input, tagClose - 1) = "/"
        realTagClose == IF isSelfClosing THEN tagClose - 1 ELSE tagClose
        whitespace == SearchWhitespace(SliceFrom(input, chunkPos))
        bare == TagOpenNode(Slice(input, chunkPos, realTagClose), <<>>,
                            isSelfClosing)
        withAttrs == TagOpenNode(Slice(input, chunkPos, chunkPos + whitespace),
                                 Slice(input, chunkPos + whitespace + 1,
                                       realTagClose),
                                 isSelfClosing)
    IN  IF whitespace = -1 \/ whitespace >= tagClose - chunkPos
        THEN Continue(tagClose + 1, _handleTagOpening(tagStack, bare),
                       Append(emitted, bare))
        ELSE IF whitespace = 0
        THEN Result(emitted, tagStack, Null,
                    Error("Tag names may not start with whitespace", <<>>))
        ELSE Continue(tagClose + 1,
                       _handleTagOpening(tagStack, withAttrs),
                       Append(emitted, withAttrs))

\* Opening tag: the name starts at chunkPos, the tag ends at tagClose
OpeningTag(input, chunkPos, tagClose, tagStack, emitted) ==
    LET isSelfClosing == CharAt(input, tagClose - 1) = "/"
        realTagClose == IF isSelfClosing THEN tagClose - 1 ELSE tagClose
        whitespace == SearchWhitespace(SliceFrom(input, chunkPos))
        bare == TagOpenNode(Slice(input, chunkPos, realTagClose), <<>>,
                            isSelfClosing)
        withAttrs == TagOpenNode(Slice(input, chunkPos, chunkPos + whitespace),
                                 Slice(input, chunkPos + whitespace, realTagClose),
                                 isSelfClosing)
    IN  IF whitespace = -1 \/ whitespace >= tagClose - chunkPos
        THEN Continue(tagClose + 1, _handleTagOpening(tagStack, bare),
                       Append(emitted, bare))
        ELSE IF whitespace = 0
        THEN Result(emitted, tagStack, Null,
                    Error("Tag names may not start with whitespace", <<>>))
        ELSE Continue(tagClose + 1,
                       _handleTagOpening(tagStack, withAttrs),
                       Append(emitted, withAttrs))

\* Regular tags (< ... >): chunkPos points right after the '<'
RegularTag(input, chunkPos, tagStack, emitted) ==
    LET tagClose == IndexOf(input, <<">">>, chunkPos)
    IN  IF tagClose = -1
        THEN Result(emitted, tagStack,
                    _wait("tagopen", SliceFrom(input, chunkPos - 1)), NoError)
        ELSE IF CharAt(input, chunkPos) = "/"
        THEN ClosingTag(input, chunkPos, tagClose, tagStack, emitted)
        ELSE OpeningTag(input, chunkPos, tagClose, tagStack, emitted)

\* The rest of the loop body once the cursor is on a '<'
Markup(input, chunkPos, tagStack, emitted) ==
    IF CharAt(input, chunkPos + 1) = "!"
    THEN MarkupDeclaration(input, chunkPos + 2, tagStack, emitted)
    ELSE IF CharAt(input, chunkPos + 1) = "?"
    THEN ProcessingInstruction(input, chunkPos + 2, tagStack, emitted)
    ELSE RegularTag(input, chunkPos + 1, tagStack, emitted)

\* The text node in front of the next tag, when the cursor is not on a '<'
TextBefore(input, chunkPos, emitted) ==
    IF CharAt(input, chunkPos) # "<"
    THEN Append(emitted,
                TextNode(Slice(input, chunkPos,
                               IndexOf(input, <<"<">>, chunkPos))))
    ELSE emitted

\* The body of the while loop with the cursor at chunkPos < end
Iteration(input, chunkPos, tagStack, emitted) ==
    IF CharAt(input, chunkPos) # "<" /\ IndexOf(input, <<"<">>, chunkPos) = -1
    THEN Result(emitted, tagStack,
                _wait("text", SliceFrom(input, chunkPos)), NoError)
    ELSE Markup(input,
                IF CharAt(input, chunkPos) # "<"
                THEN IndexOf(input, <<"<">>, chunkPos) ELSE chunkPos,
                tagStack, TextBefore(input, chunkPos, emitted))

\* while (chunkPos < end) { ... } callback()
RECURSIVE ParseLoop(_, _, _, _)
RECURSIVE NextIteration(_, _)

ParseLoop(input, chunkPos, tagStack, emitted) ==
    IF ~(chunkPos < Len(input))
    THEN Result(emitted, tagStack, Null, NoError)
    ELSE NextIteration(input, Iteration(input, chunkPos, tagStack, emitted))

\* After one pass through the body: back to the loop test, or out of it
NextIteration(input, step) ==
    IF Continues(step)
    THEN ParseLoop(input, step.chunkPos, step.tagStack, step.events)
    ELSE step

\* callback(err) is recorded as an error event, callback() leaves no trace
Callback(r) ==
    IF r.error = NoError THEN r
    ELSE [r EXCEPT !.events = Append(r.events, r.error)]

\* _parseChunk(input, callback) on a parser whose state is (waiting, tagStack)
\* and that has emitted `emitted`.
_parseChunk(input, waiting, tagStack, emitted) ==
    Callback(ParseLoop(_unwait(waiting) \o input, 0, tagStack, emitted))

-----------------------------------------------------------------------------
(* Saxophone#_final.                                                       *)

\* this._waiting.<name>: the object set by _wait has the properties token
\* and data, any other property is undefined.
Property(object, name) ==
    IF name \in DOMAIN object THEN object[name] ELSE Undefined

\* The switch over the unclosed node (lines 431-458): the error it hands to
\* callback, if any.
UnclosedNodeError(waiting) ==
    IF waiting = Null THEN NoError
    ELSE IF Property(waiting, "tag") = "cdata"
    THEN Error("Unclosed CDATA section", <<>>)
    ELSE IF Property(waiting, "tag") = "comment"
    THEN Error("Unclosed comment", <<>>)
    ELSE IF Property(waiting, "tag") = "processinginstruction"
    THEN Error("Unclosed processing instruction", <<>>)
    ELSE IF Property(waiting, "tag") \in {"tagopen", "tagclose"}
    THEN Error("Unclosed tag", <<>>)
    ELSE NoError

\* The same switch: the events after it, a text node being implicitly closed.
UnclosedNodeEvents(waiting, emitted) ==
    IF waiting # Null /\ Property(waiting, "tag") = "text"
    THEN Append(emitted, TextNode(waiting.data))
    ELSE emitted

\* The check of the tag stack that ends _final (lines 460-467): the error
\* handed to callback, or the plain callback() that lets the stream finish.
UnclosedTags(tagStack) ==
    IF Len(tagStack) # 0
    THEN Error("Unclosed tags: ", Join(tagStack, <<",">>))
    ELSE Finish

\* The callback _final gives to _parseChunk, r being what that call left, up
\* to its call of callback: with an error, callback(err) has the stream emit
\* 'error' and is still running (what the stream emits once the listeners
\* have returned is in Finished); without, callback() has it emit 'finish'.
FinalCallback(r) ==
    IF r.error # NoError THEN r
    ELSE IF UnclosedNodeError(r.waiting) # NoError
    THEN [r EXCEPT !.events = Append(UnclosedNodeEvents(r.waiting, r.events),
                                     UnclosedNodeError(r.waiting)),
                   !.error = UnclosedNodeError(r.waiting)]
    ELSE [r EXCEPT !.events = Append(UnclosedNodeEvents(r.waiting, r.events),
                                     UnclosedTags(r.tagStack)),
                   !.error = IF Len(r.tagStack) # 0
                             THEN UnclosedTags(r.tagStack) ELSE NoError]

\* _final(callback) on a parser in state (waiting, tagStack): the decoder has
\* nothing left when only strings were written, so the chunk is empty.
_final(waiting, tagStack, emitted) ==
    FinalCallback(_parseChunk(<<>>, waiting, tagStack, emitted))

\* callback(err) of _final returns: the listeners of 'error' have returned,
\* and the stream emits 'finish' all the same.
Finished(r) ==
    IF r.error # NoError
    THEN [r EXCEPT !.events = Append(r.events, Finish)]
    ELSE r

-----------------------------------------------------------------------------
(* The writer: the documents it may supply and the calls of the stream.    *)

\* The fragments documents are built from.
Pieces ==
    { <<"<", "a", ">">>, <<"<", "/", "a", ">">>, <<"<", "b", ">">>,
      <<"<", "b", "/", ">">>,
      <<"<", "!", "-", "-">>, <<"-", "-", ">">>,
      <<"<", "!", "[", "C", "D", "A", "T", "A", "[">>, <<"]", "]", ">">>,
      <<"<", "?">>, <<"?", ">">>,
      <<"<">>, <<">">>, <<"b">> }

\* The concatenations of at most n pieces.
RECURSIVE Concats(_)
Concats(n) ==
    IF n = 0 THEN {<<>>}
    ELSE LET shorter == Concats(n - 1)
         IN  shorter \cup {d \o p : d \in shorter, p \in Pieces}

PieceDocs == Concats(MaxPieces)

\* The concatenations of at most n elements of a set of fragments.
RECURSIVE ConcatsOf(_, _)
ConcatsOf(fragments, n) ==
    IF n = 0 THEN {<<>>}
    ELSE LET shorter == ConcatsOf(fragments, n - 1)
         IN  shorter \cup {d \o p : d \in shorter, p \in fragments}

\* The characters the interior of a single-tag document is made of: a name
\* character, the slash, and characters the regular expression \s matches.
TagChars == {"a", "/", " ", "\t", "\n", "\r", "\f"}

\* Documents made of one tag: '<', an interior, '>'.
TagDocs ==
    {<<"<">> \o s \o <<">">> :
         s \in ConcatsOf({<<c>> : c \in TagChars}, MaxTagLen)}

\* What may follow '<!' in a markup declaration document.
DeclPieces ==
    { <<"[">>, <<"-">>, <<"A">>, <<"C", "D", "A", "T", "A", "[">>,
      <<"]", "]", ">">>, <<">">> }

\* Documents that start with '<!'.
DeclDocs == {<<"<", "!">> \o t : t \in ConcatsOf(DeclPieces, MaxPieces)}

\* Documents made of one tag <a b="v"> or <a b="v"/>, with either quote
\* character and a value v that may hold '>'.
AttrTagDocs ==
    {<<"<", "a", " ", "b", "=", q>> \o v \o <<q>> \o t :
         q \in {"\"", "'"},
         v \in ConcatsOf({<<">">>, <<"a">>, <<" ">>}, MaxTagLen),
         t \in {<<">">>, <<"/", ">">>}}

\* Documents made of the tag <a> and a closing tag whose interior has at most
\* MaxTagLen characters.
CloseTagDocs ==
    {<<"<", "a", ">", "<", "/">> \o s \o <<">">> :
         s \in ConcatsOf({<<"a">>, <<"b">>, <<" ">>}, MaxTagLen)}

\* Characters that \s matches outside the ASCII white space: the vertical
\* tab and the no-break space.
WideSpaces == {"U+11", "U+160"}

\* Documents made of one tag with such a character after or before its name.
WideSpaceDocs ==
    {<<"<", "a", c, "b", ">">> : c \in WideSpaces}
        \cup {<<"<", c, "a", ">">> : c \in WideSpaces}

Docs ==
    PieceDocs \cup TagDocs \cup DeclDocs \cup AttrTagDocs \cup CloseTagDocs
        \cup WideSpaceDocs

\* new Saxophone()
Init ==
    /\ doc \in Docs
    /\ rest = doc
    /\ _waiting = Null
    /\ _tagStack = <<>>
    /\ events = <<>>
    /\ ending = FALSE
    /\ finalized = FALSE
    /\ unwinding = <<>>
    /\ argument = <<>>
    /\ returned = NotCalled

\* The parser after _write(chunk, encoding, callback) with a string chunk,
\* when it hands over to callback.
_write(chunk) == _parseChunk(chunk, _waiting, _tagStack, events)

\* A call of callback(err) in progress.
Frame(call, emptiesStack) == [call |-> call, emptiesStack |-> emptiesStack]

\* The parser's state becomes what the call had done when it called callback.
\* With an error, a call that empties the stack afterwards, or that is the
\* write of end(chunk) or _final, has not returned yet; end() marks the
\* stream as ending once its write has returned.
Becomes(r, call) ==
    /\ _waiting' = r.waiting
    /\ _tagStack' = r.tagStack
    /\ events' = r.events
    /\ unwinding' = IF \/ r.emptiesStack
                       \/ (call \in {"end", "final"} /\ r.error # NoError)
                    THEN Append(unwinding, Frame(call, r.emptiesStack))
                    ELSE unwinding
    /\ ending' = (ending \/ (call = "end" /\ r.error = NoError))

\* write(chunk): the next n characters of the document are written, by the
\* writer or by a listener of 'error' that callback(err) is running.
Write(n) ==
    /\ ~ending
    /\ Becomes(_write(SubSeq(rest, 1, n)), "write")
    /\ rest' = SubSeq(rest, n + 1, Len(rest))
    /\ UNCHANGED <<doc, finalized, argument, returned>>

\* callback(err) returns: the listeners of 'error' have returned.  When the
\* call is _final, the stream emits 'finish' after the error; after line 353
\* the stack is emptied (line 354), and the call returns; when the call is
\* the write of end(chunk), the stream is ending.
Return ==
    /\ unwinding # <<>>
    /\ events' = IF unwinding[Len(unwinding)].call = "final"
                 THEN Append(events, Finish)
                 ELSE events
    /\ _tagStack' = IF unwinding[Len(unwinding)].emptiesStack
                    THEN <<>> ELSE _tagStack
    /\ unwinding' = SubSeq(unwinding, 1, Len(unwinding) - 1)
    /\ ending' = (ending \/ unwinding[Len(unwinding)].call = "end")
    /\ UNCHANGED <<doc, rest, _waiting, finalized, argument, returned>>

\* callback(err) throws: the stream emits 'error' and nobody listens to it,
\* or a listener throws.  The exception leaves _parseChunk, _write and the
\* stream call: line 354 is not run, end() does not mark the stream as
\* ending, and after _final the stream does not emit 'finish'.
Throw ==
    /\ unwinding # <<>>
    /\ unwinding' = SubSeq(unwinding, 1, Len(unwinding) - 1)
    /\ UNCHANGED <<doc, rest, _waiting, _tagStack, events, ending, finalized,
                   argument, returned>>

\* The stream calls _final on the parser as the last write left it: up to
\* the call of callback,
Finalize(w) == _final(w.waiting, Returned(w).tagStack, w.events)

\* and once the listeners of 'error', if any was called, have returned.
Finally(w) == Finished(Finalize(w))

\* new Saxophone().parse(input), up to the call of callback by _final
parse(input) == Finalize(_parseChunk(input, Null, <<>>, <<>>))

\* The last write of end(chunk): the chunk, if any, is written.
EndOfStream(chunk) ==
    IF chunk = <<>>
    THEN Result(events, _tagStack, _waiting, NoError)
    ELSE _write(chunk)

\* end(xml = ""): what is left of the document is the last chunk.  The call
\* returns with the stream ending; _final is called later.
End ==
    /\ ~ending
    /\ Becomes(EndOfStream(rest), "end")
    /\ rest' = <<>>
    /\ UNCHANGED <<doc, finalized, argument, returned>>

\* parse(input) on a new parser: this.end(input)
Parse ==
    /\ rest = doc
    /\ events = <<>>
    /\ End

\* The stream calls _final: on a turn of the event loop after end(), once,
\* when no call is in progress.  With an error, what follows callback(err)
\* is in Return (the stream emits 'finish') and Throw (it does not).
Final ==
    /\ ending
    /\ ~finalized
    /\ unwinding = <<>>
    /\ Becomes(_final(_waiting, _tagStack, events), "final")
    /\ finalized' = TRUE
    /\ UNCHANGED <<doc, rest, argument, returned>>

Next ==
    \/ \E n \in 0 .. Len(rest) : Write(n)
    \/ Return
    \/ Throw
    \/ End
    \/ Parse
    \/ Final

Spec == Init /\ [][Next]_vars

-----------------------------------------------------------------------------
(* The static helper parseAttrs of src/lib/static/attrs.js.  An object is  *)
(* the function from its own property names to their values.               *)

\* A call of parseAttrs is given a text of at most MaxAttrPieces pieces, or
\* the serialization of at most MaxAttrs attributes.
MaxAttrPieces == 4

MaxAttrs == 2

\* isWhitespace(character)
isWhitespace(character) == character \in {" ", "\r", "\n", "\t"}

\* The property name that Object.prototype defines as an accessor.
ProtoName == <<"_", "_", "p", "r", "o", "t", "o", "_", "_">>

\* object[name] = value, for an object created by {} and a string value: the
\* assignment to __proto__ runs the accessor of Object.prototype, which
\* ignores a value that is not an object and stores no property.
SetProperty(object, name, value) ==
    IF name = ProtoName THEN object
    ELSE [n \in DOMAIN object \cup {name} |->
              IF n = name THEN value ELSE object[n]]

\* Variant of ScanName that accepts whitespace inside a name.
RECURSIVE ScanName_anyCharacter(_, _)
ScanName_anyCharacter(input, position) ==
    IF CharAt(input, position) # "=" /\ position < Len(input)
    THEN ScanName_anyCharacter(input, position + 1)
    ELSE position

\* The inner loop over the characters of a name: the position where it
\* stops, or -1 when it throws.
RECURSIVE ScanName(_, _)
ScanName(input, position) ==
    IF CharAt(input, position) # "=" /\ position < Len(input)
    THEN IF isWhitespace(CharAt(input, position)) THEN -1
         ELSE ScanName(input, position + 1)
    ELSE position

RECURSIVE AttrsLoop(_, _, _)

\* Variant of AttrValue that ends the value at the next quote character of
\* either kind.
AttrValue_anyQuote(input, attrName, startQuote, position, attrs) ==
    LET either == {i \in position .. (Len(input) - 1) :
                       CharAt(input, i) \in {"\"", "'"}}
        endQuote == IF either = {} THEN -1
                    ELSE CHOOSE i \in either : \A j \in either : i <= j
    IN  IF startQuote # "\"" /\ startQuote # "'"
        THEN Throws("Attribute values should be quoted")
        ELSE IF endQuote = -1
        THEN Throws("Unclosed attribute value")
        ELSE AttrsLoop(input, endQuote + 1,
                       SetProperty(attrs, attrName,
                                   Slice(input, position, endQuote)))

\* Variant of AttrValue that takes whatever follows '=' as the delimiter of
\* the value.
AttrValue_anyDelimiter(input, attrName, startQuote, position, attrs) ==
    LET endQuote == IndexOf(input, <<startQuote>>, position)
    IN  IF endQuote = -1
        THEN Throws("Unclosed attribute value")
        ELSE AttrsLoop(input, endQuote + 1,
                       SetProperty(attrs, attrName,
                                   Slice(input, position, endQuote)))

\* The value of an attribute, from the quote that opens it.
AttrValue(input, attrName, startQuote, position, attrs) ==
    LET endQuote == IndexOf(input, <<startQuote>>, position)
    IN  IF startQuote # "\"" /\ startQuote # "'"
        THEN Throws("Attribute values should be quoted")
        ELSE IF endQuote = -1
        THEN Throws("Unclosed attribute value")
        ELSE AttrsLoop(input, endQuote + 1,
                       SetProperty(attrs, attrName,
                                   Slice(input, position, endQuote)))

\* One attribute, from the start of its name; position is where the scan of
\* the name stopped.
Attribute(input, startName, position, attrs) ==
    IF position = -1
    THEN Throws("Attribute names may not contain whitespace")
    ELSE IF position = Len(input)
    THEN Throws("Expected a value for the attribute")
    ELSE AttrValue(input, Slice(input, startName, position),
                   CharAt(input, position + 1), position + 2, attrs)

\* while (position < end) { ... }
AttrsLoop(input, position, attrs) ==
    IF position >= Len(input) THEN Returns(attrs)
    ELSE IF isWhitespace(CharAt(input, position))
    THEN AttrsLoop(input, position + 1, attrs)
    ELSE Attribute(input, position, ScanName(input, position), attrs)

\* Saxophone.parseAttrs(input)
parseAttrs(input) == AttrsLoop(input, 0, <<>>)

\* The characters the texts are made of.
AttrPieces ==
    {<<" ">>, <<"\t">>, <<"\r">>, <<"\n">>, <<"a">>, <<"=">>, <<"\"">>, <<"'">>}

\* The names and values of the serialized mappings.
AttrNames == {<<>>, <<"a">>, <<"b">>, <<"a", "'", "b">>, ProtoName}

AttrValues == {<<>>, <<"a">>, <<" ", "=", "b">>}

\* The entries of a mapping, in the order of their insertion: pairs of a name
\* and a value, no name twice.
Entries ==
    {e \in UNION {[1 .. n -> AttrNames \X AttrValues] : n \in 0 .. MaxAttrs} :
         \A i, j \in 1 .. Len(e) : e[i][1] = e[j][1] => i = j}

\* name="value"
Pair(entry) == entry[1] \o <<"=", "\"">> \o entry[2] \o <<"\"">>

\* The pairs of the entries joined by single spaces.
Serialize(entries) == Join([i \in 1 .. Len(entries) |-> Pair(entries[i])], <<" ">>)

\* Two attributes, the second quoted either way, with runs of whitespace
\* before, between and after them.
WhitespaceRuns == ConcatsOf({<<w>> : w \in {" ", "\t", "\r", "\n"}}, 2)

SpacedTexts ==
    {lead \o <<"a", "=", "\"", "'", "\"">> \o gap \o second \o trail :
         lead \in WhitespaceRuns, gap \in WhitespaceRuns,
         second \in {<<>>, <<"b", "=", "'", "\"", " ", "'">>},
         trail \in {<<>>, <<" ">>, <<"\n", "\t">>}}

\* An attribute b whose '=' is followed by a character that is not a quote,
\* alone or after a well-formed attribute.
UnquotedTexts ==
    {lead \o <<"b", "=">> \o v :
         lead \in {<<>>, <<"a", "=", "\"", "b", "\"", " ">>,
                   <<"a", "=", "'", "b", "'">>},
         v \in {<<"a">>, <<"a", "\"">>, <<" ", "\"", "a", "\"">>,
                <<"b", " ", "'", "a", "'">>}}

AttrTexts ==
    ConcatsOf(AttrPieces, MaxAttrPieces)
        \cup {Serialize(e) : e \in Entries}
        \cup SpacedTexts
        \cup UnquotedTexts

AttrsInit ==
    /\ argument \in AttrTexts
    /\ returned = NotCalled
    /\ doc = <<>>
    /\ rest = <<>>
    /\ _waiting = Null
    /\ _tagStack = <<>>
    /\ events = <<>>
    /\ ending = FALSE
    /\ finalized = FALSE
    /\ unwinding = <<>>

\* Saxophone.parseAttrs(argument) is called.
CallParseAttrs ==
    /\ returned = NotCalled
    /\ returned' = parseAttrs(argument)
    /\ UNCHANGED <<argument, doc, rest, _waiting, _tagStack, events, ending,
                   finalized, unwinding>>

AttrsNext == CallParseAttrs

AttrsSpec == AttrsInit /\ [][AttrsNext]_vars

-----------------------------------------------------------------------------
(* Vocabulary of the properties.                                           *)

TokenEvents ==
    {"text", "cdata", "comment", "processinginstruction", "tagopen", "tagclose"}

IsError(e) == e.event = "error"

HasError(evs) == \E i \in 1 .. Len(evs) : IsError(evs[i])

Front(evs) == SubSeq(evs, 1, Len(evs) - 1)

\* The open tags obtained by replaying a sequence of events: a tagopen that
\* is not self-closing pushes its name, a tagclose pops one element.
RECURSIVE OpenTagsAfter(_)
OpenTagsAfter(evs) ==
    IF evs = <<>> THEN <<>>
    ELSE IF evs[Len(evs)].event = "tagopen" /\ ~evs[Len(evs)].isSelfClosing
    THEN Append(OpenTagsAfter(Front(evs)), evs[Len(evs)].name)
    ELSE IF evs[Len(evs)].event = "tagclose"
    THEN Popped(OpenTagsAfter(Front(evs)))
    ELSE OpenTagsAfter(Front(evs))

\* Every tagclose carries the name of the element it pops in the replay.
ClosesMatch(evs) ==
    \A i \in 1 .. Len(evs) :
        evs[i].event = "tagclose" =>
            Pop(OpenTagsAfter(SubSeq(evs, 1, i - 1))) = evs[i].name

\* The chunk handed to the tokenizer by the step being taken.
StepChunk == SubSeq(rest, 1, Len(rest) - Len(rest'))

-----------------------------------------------------------------------------
(* C1 -- Chunk invariance: however the document is cut into chunks, once   *)
(* the stream is ended the events are those of parsing the document as a   *)
(* single chunk, up to the error reported by _final when the call of its   *)
(* callback is not over, and with the end signal that follows it when it   *)
(* is.                                                                     *)
SameRun(single, evs) ==
    evs = IF evs[Len(evs)] = Finish
          THEN Finished(single).events
          ELSE single.events

C1_ChunkInvariance == finalized => SameRun(parse(doc), events)

(* C2 -- Open-tag stack discipline: as long as no error was reported, the  *)
(* tag stack is the replay of the emitted events (non-self-closing tagopen *)
(* pushes its name, tagclose pops), and every tagclose names the element   *)
(* it pops.                                                                *)
C2_StackDiscipline ==
    ~HasError(events) =>
        /\ _tagStack = OpenTagsAfter(events)
        /\ ClosesMatch(events)

C2_Witness ==
    /\ ~HasError(events)
    /\ ~ending
    /\ \E i \in 1 .. Len(events) :
           events[i].event = "tagopen" /\ ~events[i].isSelfClosing
    /\ \E i \in 1 .. Len(events) : events[i].event = "tagclose"
    /\ \E i \in 1 .. Len(events) :
           events[i].event = "tagopen" /\ events[i].isSelfClosing

(* C3 -- Mismatched close: when the text handed to the loop (pending data  *)
(* followed by the chunk) starts with a closing tag whose name is not the  *)
(* top of the tag stack (an empty stack included), the next event is the   *)
(* error "Unclosed tag: <popped name>" and no tagclose is emitted for it;   *)
(* whenever, in a run without earlier error, the error "Unclosed tag: ..." *)
(* is reported, it names the top of the open tags at that point; the call  *)
(* that reports it has line 354 left to run; and once that call is over,   *)
(* the stack is empty.                                                     *)
\* The step has called callback(err) at line 353 and not left it.
LeftToEmptyStack ==
    /\ Len(unwinding') = Len(unwinding) + 1
    /\ SubSeq(unwinding', 1, Len(unwinding)) = unwinding
    /\ unwinding'[Len(unwinding')].emptiesStack

\* The step ends such a call.
MismatchedCloseOver ==
    /\ unwinding # <<>>
    /\ unwinding' = SubSeq(unwinding, 1, Len(unwinding) - 1)
    /\ unwinding[Len(unwinding)].emptiesStack

StartsWithClosingTag(input) ==
    /\ CharAt(input, 0) = "<"
    /\ CharAt(input, 1) = "/"
    /\ IndexOf(input, <<">">>, 1) # -1

ClosingTagName(input) == Slice(input, 2, IndexOf(input, <<">">>, 1))

MismatchedCloseStep(input) ==
    (StartsWithClosingTag(input) /\ Pop(_tagStack) # ClosingTagName(input)) =>
        /\ Len(events') > Len(events)
        /\ SubSeq(events', 1, Len(events)) = events
        /\ events'[Len(events) + 1] =
               Error("Unclosed tag: ", TemplateString(Pop(_tagStack)))
        /\ \A j \in (Len(events) + 2) .. Len(events') :
               events'[j].event \notin TokenEvents
        /\ LeftToEmptyStack

UnclosedTagReported(evs, j) ==
    /\ IsError(evs[j])
    /\ evs[j].message = "Unclosed tag: "

MismatchedCloseReport ==
    \A j \in (Len(events) + 1) .. Len(events') :
        (UnclosedTagReported(events', j) /\ ~HasError(SubSeq(events', 1, j - 1))) =>
            /\ events'[j].detail =
                   TemplateString(Pop(OpenTagsAfter(SubSeq(events', 1, j - 1))))
            /\ LeftToEmptyStack

C3_MismatchedClose ==
    [][/\ MismatchedCloseStep(_unwait(_waiting) \o StepChunk)
       /\ MismatchedCloseReport
       /\ MismatchedCloseOver => (_tagStack' = <<>> /\ events' = events)]_vars

(* C4 -- Error is terminal: no token event follows an error event.         *)
C4_ErrorIsTerminal ==
    \A i \in 1 .. Len(events) : \A j \in (i + 1) .. Len(events) :
        IsError(events[i]) => events[j].event \notin TokenEvents

(* C5 -- Single terminal outcome: once the stream is ended there is        *)
(* exactly one terminal event, the end signal or one error, and it is the  *)
(* last event.                                                             *)
C5_SingleTerminalOutcome ==
    finalized =>
        /\ Cardinality({i \in 1 .. Len(events) :
                            events[i].event \in {"error", "finish"}}) = 1
        /\ events[Len(events)].event \in {"error", "finish"}

(* C6 -- Unclosed tags at finish: once the stream is ended, when no error   *)
(* was reported before the final check, its outcome is the error           *)
(* "Unclosed tags: " with the open tags joined by ',' from bottom to top   *)
(* if there are open tags, and the end signal otherwise; and when the      *)
(* first error of the run is that error, no end signal is emitted.         *)
UnclosedTagsReported(evs, k) ==
    /\ IsError(evs[k])
    /\ evs[k].message = "Unclosed tags: "
    /\ ~HasError(SubSeq(evs, 1, k - 1))

C6_UnclosedTagsAtFinish ==
    finalized =>
        /\ ~HasError(Front(events)) =>
               events[Len(events)] =
                   IF OpenTagsAfter(Front(events)) # <<>>
                   THEN Error("Unclosed tags: ",
                              Join(OpenTagsAfter(Front(events)), <<",">>))
                   ELSE Finish
        /\ \A k \in 1 .. Len(events) :
               UnclosedTagsReported(events, k) =>
                   \A i \in 1 .. Len(events) : events[i] # Finish

(* C7 -- Trailing text at finish: when the text pending at the end of the  *)
(* stream is of kind text, one text event carrying the whole pending data  *)
(* is emitted right before the terminal outcome.                           *)
C7_TrailingText ==
    (finalized /\ _waiting # Null /\ _waiting.token = "text") =>
        /\ Len(events) >= 2
        /\ events[Len(events) - 1] = TextNode(_waiting.data)

(* C8 -- Unterminated token at finish: when the stream is ended with a     *)
(* CDATA section, a comment or a processing instruction pending, the last  *)
(* event is the matching "Unclosed ..." error and there is no end signal.  *)
UnclosedMessage(token) ==
    IF token = "cdata" THEN "Unclosed CDATA section"
    ELSE IF token = "comment" THEN "Unclosed comment"
    ELSE "Unclosed processing instruction"

C8_UnterminatedToken ==
    (/\ finalized
     /\ _waiting # Null
     /\ _waiting.token \in {"cdata", "comment", "processinginstruction"}) =>
        /\ events[Len(events)] = Error(UnclosedMessage(_waiting.token), <<>>)
        /\ \A i \in 1 .. Len(events) : events[i].event # "finish"

(* C9 -- Unterminated tag at finish: when the stream is ended with a tag   *)
(* that has no '>' or a bare '<!' pending, the last event is the error     *)
(* "Unclosed tag" and there is no end signal.                              *)
C9_UnterminatedTag ==
    (/\ finalized
     /\ _waiting # Null
     /\ _waiting.token \in {"tagopen", "markupDeclaration"}) =>
        /\ events[Len(events)] = Error("Unclosed tag", <<>>)
        /\ \A i \in 1 .. Len(events) : events[i].event # "finish"

(* C10 -- Comment opener across chunks: when the document is a well-formed *)
(* comment and only a part of its opening delimiter '<!--' has been        *)
(* written (in any number of chunks), ending the stream with the rest      *)
(* gives, once _final has run, exactly the comment and the end signal.     *)
IsComment(d) ==
    /\ Len(d) >= 7
    /\ SubSeq(d, 1, 4) = <<"<", "!", "-", "-">>
    /\ IndexOf(d, <<"-", "-">>, 4) = Len(d) - 3
    /\ d[Len(d)] = ">"

C10_CommentOpenerSplit ==
    (/\ IsComment(doc)
     /\ Len(doc) - Len(rest) \in 1 .. 3
     /\ ~ending) =>
        Finally(EndOfStream(rest)).events
            = <<CommentNode(Slice(doc, 4, Len(doc) - 3)), Finish>>

(* C11 -- Comment closer across chunks: when the document is a well-formed *)
(* comment, no error was reported so far and the chunk being written       *)
(* brings the text supplied to at least the whole opening delimiter        *)
(* (so that the chunk ends in the contents or anywhere in '-->'), the      *)
(* step reports no error, and once the stream is ended the events are      *)
(* exactly the comment and the end signal.                                 *)
C11_CommentCloserSplit ==
    [][(/\ IsComment(doc)
        /\ ~HasError(events)
        /\ Len(doc) - Len(rest') >= 4) =>
           /\ ~HasError(events')
           /\ finalized' =>
                  events' = <<CommentNode(Slice(doc, 4, Len(doc) - 3)), Finish>>]_vars

(* C12 -- CDATA across chunks: when the document is a well-formed CDATA    *)
(* section '<![CDATA[' c ']]>', then whatever the chunks no error is       *)
(* reported, no event is emitted before the last character was written,    *)
(* the one event emitted once it was written is the cdata event with       *)
(* contents c, and _final adds the end signal only.                        *)
IsCDATA(d) ==
    /\ Len(d) >= 12
    /\ SubSeq(d, 1, 9) = <<"<", "!", "[", "C", "D", "A", "T", "A", "[">>
    /\ IndexOf(d, <<"]", "]", ">">>, 9) = Len(d) - 3

C12_CDATASplit ==
    IsCDATA(doc) =>
        /\ ~HasError(events)
        /\ rest # <<>> => events = <<>>
        /\ (rest = <<>> /\ ~finalized) =>
               events = <<CDATANode(Slice(doc, 9, Len(doc) - 3))>>
        /\ finalized => events = <<CDATANode(Slice(doc, 9, Len(doc) - 3)), Finish>>

C12_Witness ==
    /\ IsCDATA(doc)
    /\ Slice(doc, 9, Len(doc) - 3) = <<"b">>
    /\ ~ending
    /\ Len(rest) \in 1 .. 2
    /\ _waiting.token = "cdata"
    /\ _waiting.data = SubSeq(doc, 1, Len(doc) - Len(rest))

(* C13 -- Events only for completed tokens.  The text of the token an      *)
(* event stands for is written back from its payload (delimiters           *)
(* included); then, while the stream is open and no error was reported,    *)
(* the events followed by the pending data spell exactly the text written  *)
(* so far, so every event is a token whose terminator was received and an  *)
(* unterminated token has produced no event; a text event is always        *)
(* followed by a token or by pending data that starts with '<'; and when   *)
(* the stream has ended with the end signal and without error, the events  *)
(* spell the whole document, so no pending token went unreported.          *)
TokenSource(e) ==
    IF e.event = "text" THEN e.contents
    ELSE IF e.event = "cdata"
    THEN <<"<", "!", "[", "C", "D", "A", "T", "A", "[">> \o e.contents
             \o <<"]", "]", ">">>
    ELSE IF e.event = "comment"
    THEN <<"<", "!", "-", "-">> \o e.contents \o <<"-", "-", ">">>
    ELSE IF e.event = "processinginstruction"
    THEN <<"<", "?">> \o e.contents \o <<"?", ">">>
    ELSE IF e.event = "tagopen"
    THEN <<"<">> \o e.name \o e.attrs
             \o (IF e.isSelfClosing THEN <<"/">> ELSE <<>>) \o <<">">>
    ELSE IF e.event = "tagclose"
    THEN <<"<", "/">> \o e.name \o <<">">>
    ELSE <<>>

RECURSIVE TokenSources(_)
TokenSources(evs) ==
    IF evs = <<>> THEN <<>>
    ELSE TokenSource(Head(evs)) \o TokenSources(Tail(evs))

Written == SubSeq(doc, 1, Len(doc) - Len(rest))

CompletedTokensOnly ==
    (~ending /\ ~HasError(events)) =>
        /\ TokenSources(events) \o _unwait(_waiting) = Written
        /\ \A i \in 1 .. Len(events) :
               events[i].event = "text" =>
                   \/ /\ i < Len(events)
                      /\ events[i + 1].event # "text"
                   \/ /\ i = Len(events)
                      /\ CharAt(_unwait(_waiting), 0) = "<"

PendingTokenReported ==
    (finalized /\ ~HasError(events)) => TokenSources(events) = doc

C13_CompletedTokens == CompletedTokensOnly /\ PendingTokenReported

(* C14 -- Text completeness: when the stream has ended with the end signal *)
(* and without error, the contents of the text and cdata events,           *)
(* concatenated in emission order, are the document with every tag,        *)
(* comment and processing instruction removed and every CDATA wrapper      *)
(* replaced by its contents, and no two text events are adjacent.          *)
StartsWith(s, prefix) == Slice(s, 0, Len(prefix)) = prefix

\* The text after the token that starts s, whose terminator is searched from
\* position from; nothing when the token is not terminated.
AfterToken(s, terminator, from) ==
    IF IndexOf(s, terminator, from) = -1 THEN <<>>
    ELSE SliceFrom(s, IndexOf(s, terminator, from) + Len(terminator))

\* The document outside its tags, comments and processing instructions, by
\* the grammar of the tokens.
RECURSIVE TextOutside(_)
TextOutside(s) ==
    IF s = <<>> THEN <<>>
    ELSE IF Head(s) # "<" THEN <<Head(s)>> \o TextOutside(Tail(s))
    ELSE IF StartsWith(s, <<"<", "!", "[", "C", "D", "A", "T", "A", "[">>)
    THEN IF IndexOf(s, <<"]", "]", ">">>, 9) = -1 THEN <<>>
         ELSE Slice(s, 9, IndexOf(s, <<"]", "]", ">">>, 9))
                  \o TextOutside(AfterToken(s, <<"]", "]", ">">>, 9))
    ELSE IF StartsWith(s, <<"<", "!", "-", "-">>)
    THEN TextOutside(AfterToken(s, <<"-", "-", ">">>, 4))
    ELSE IF StartsWith(s, <<"<", "?">>)
    THEN TextOutside(AfterToken(s, <<"?", ">">>, 2))
    ELSE TextOutside(AfterToken(s, <<">">>, 1))

\* The contents of the text and cdata events, in emission order.
RECURSIVE TextContents(_)
TextContents(evs) ==
    IF evs = <<>> THEN <<>>
    ELSE (IF Head(evs).event \in {"text", "cdata"}
          THEN Head(evs).contents ELSE <<>>) \o TextContents(Tail(evs))

C14_TextCompleteness ==
    (finalized /\ ~HasError(events) /\ events[Len(events)] = Finish) =>
        /\ TextContents(events) = TextOutside(doc)
        /\ \A i \in 1 .. (Len(events) - 1) :
               ~(events[i].event = "text" /\ events[i + 1].event = "text")

(* C15 -- Stack balance: when the stream has ended and the last event is   *)
(* the end signal, the number of tagopen events that are not self-closing  *)
(* equals the number of tagclose events, and in every prefix of the events *)
(* the first number is at least the second.                                *)
Opened(evs) ==
    Cardinality({i \in 1 .. Len(evs) :
                     evs[i].event = "tagopen" /\ ~evs[i].isSelfClosing})

Closed(evs) ==
    Cardinality({i \in 1 .. Len(evs) : evs[i].event = "tagclose"})

Balanced(evs) ==
    /\ Opened(evs) = Closed(evs)
    /\ \A n \in 0 .. Len(evs) :
           Opened(SubSeq(evs, 1, n)) >= Closed(SubSeq(evs, 1, n))

C15_StackBalance ==
    (finalized /\ events[Len(events)] = Finish) => Balanced(events)

(* C17 -- Unsupported markup declaration: when the document starts with   *)
(* '<!' followed by a character X and is neither the beginning of a        *)
(* comment ('<!--') nor of a CDATA section ('<![CDATA['), then once the    *)
(* stream is ended the first event is the error                            *)
(* "Unrecognized sequence: <!X": no token was emitted for the construct.   *)
\* One of the two texts is the beginning of the other.
Compatible(s, t) == Slice(s, 0, Len(t)) = Slice(t, 0, Len(s))

Unsupported(d) ==
    /\ Len(d) >= 3
    /\ StartsWith(d, <<"<", "!">>)
    /\ ~Compatible(d, <<"<", "!", "-", "-">>)
    /\ ~Compatible(d, <<"<", "!", "[", "C", "D", "A", "T", "A", "[">>)

C17_UnrecognizedSequence ==
    (finalized /\ Unsupported(doc)) =>
        events[1] = Error("Unrecognized sequence: <!", <<CharAt(doc, 2)>>)

(* C18 -- Double hyphen in a comment: when the text handed to the loop     *)
(* (pending data followed by the chunk) starts with '<!--' and contains a  *)
(* '--' after it, then, if the character after the first such '--' is      *)
(* present and is not '>', the next event is the error                     *)
(* "Unexpected -- inside comment" and not a comment event; if that         *)
(* character is '>', the next event is the comment whose contents is the   *)
(* text between '<!--' and that '--'.                                      *)
DoubleHyphenStep(input, commentClose) ==
    (StartsWith(input, <<"<", "!", "-", "-">>) /\ commentClose # -1) =>
        /\ (CharAt(input, commentClose + 2) \notin {Undefined, ">"}) =>
               /\ Len(events') > Len(events)
               /\ SubSeq(events', 1, Len(events)) = events
               /\ events'[Len(events) + 1] =
                      Error("Unexpected -- inside comment", <<>>)
        /\ (CharAt(input, commentClose + 2) = ">") =>
               /\ Len(events') > Len(events)
               /\ SubSeq(events', 1, Len(events)) = events
               /\ events'[Len(events) + 1] =
                      CommentNode(Slice(input, 4, commentClose))

DoubleHyphen(input) ==
    DoubleHyphenStep(input, IndexOf(input, <<"-", "-">>, 4))

C18_DoubleHyphenInComment ==
    [][DoubleHyphen(_unwait(_waiting) \o StepChunk)]_vars

C18_Witness ==
    /\ finalized
    /\ doc = <<"<", "!", "-", "-", "<", "!", "-", "-", "b">>
    /\ events = <<Error("Unexpected -- inside comment", <<>>), Finish>>

(* C19 -- Self-closing tags: when the text handed to the loop starts with  *)
(* an opening tag (a '<' followed by a character that is not '!', '?',     *)
(* '/' or whitespace, and a '>' further on), the next event is a tagopen   *)
(* whose isSelfClosing is true exactly when the character before that '>'  *)
(* is '/', and whose name followed by its attrs is the interior of the tag *)
(* without that '/'; when the tag is all of that text, the tag stack is    *)
(* unchanged for a self-closing tag and has the name pushed otherwise.     *)
StartsWithOpeningTag(input) ==
    /\ CharAt(input, 0) = "<"
    /\ CharAt(input, 1) \notin ({Undefined, "!", "?", "/"} \cup RegexWhitespace)
    /\ IndexOf(input, <<">">>, 1) # -1

SelfClosingStep(input, tagClose) ==
    StartsWithOpeningTag(input) =>
        /\ Len(events') > Len(events)
        /\ SubSeq(events', 1, Len(events)) = events
        /\ events'[Len(events) + 1].event = "tagopen"
        /\ events'[Len(events) + 1].isSelfClosing
               = (CharAt(input, tagClose - 1) = "/")
        /\ events'[Len(events) + 1].name \o events'[Len(events) + 1].attrs
               = Slice(input, 1,
                       IF CharAt(input, tagClose - 1) = "/"
                       THEN tagClose - 1 ELSE tagClose)
        /\ (tagClose + 1 = Len(input)) =>
               _tagStack' = IF CharAt(input, tagClose - 1) = "/"
                            THEN _tagStack
                            ELSE Append(_tagStack,
                                        events'[Len(events) + 1].name)

SelfClosing(input) == SelfClosingStep(input, IndexOf(input, <<">">>, 1))

C19_SelfClosingTags ==
    [][SelfClosing(_unwait(_waiting) \o StepChunk)]_vars

C19_Witness ==
    /\ doc = <<"<", "a", " ", "/", ">">>
    /\ events = <<TagOpenNode(<<"a">>, <<" ">>, TRUE)>>
    /\ _tagStack = <<>>
    /\ rest = <<>>

(* C20 -- Name/attribute split: when the text handed to the loop starts    *)
(* with an opening tag, the next event is the tagopen whose name is the    *)
(* interior of the tag up to its first whitespace character and whose      *)
(* attrs is the remainder from that character on (empty when there is      *)
(* none), whitespace being exactly SPACE, TAB, CR and LF.                  *)
XMLWhitespace == {" ", "\t", "\r", "\n"}

\* The position of the first of the four whitespace characters in s, Len(s)
\* when there is none.
FirstXMLWhitespace(s) ==
    LET hits == {i \in 0 .. (Len(s) - 1) : s[i + 1] \in XMLWhitespace}
    IN  IF hits = {} THEN Len(s)
        ELSE CHOOSE i \in hits : \A j \in hits : i <= j

NameAttrsSplit(interior, e) ==
    /\ e.event = "tagopen"
    /\ e.name = Slice(interior, 0, FirstXMLWhitespace(interior))
    /\ e.attrs = SliceFrom(interior, FirstXMLWhitespace(interior))

NameAttrsStep(input, tagClose) ==
    StartsWithOpeningTag(input) =>
        /\ Len(events') > Len(events)
        /\ NameAttrsSplit(Slice(input, 1,
                                IF CharAt(input, tagClose - 1) = "/"
                                THEN tagClose - 1 ELSE tagClose),
                          events'[Len(events) + 1])

NameAttrs(input) == NameAttrsStep(input, IndexOf(input, <<">">>, 1))

C20_NameAttributeSplit ==
    [][NameAttrs(_unwait(_waiting) \o StepChunk)]_vars

(* C21 -- '>' inside a quoted attribute value: when the document is one    *)
(* tag <a b="v"> or <a b="v"/> whose quoted value v may hold '>', then     *)
(* once the stream is ended exactly one tagopen event was emitted, it is   *)
(* the first event, and its attrs is everything between the name and the   *)
(* '>' (or '/>') that follows the closing quote, the whole quoted value    *)
(* included.                                                               *)
EndsSelfClosing(d) == CharAt(d, Len(d) - 2) = "/"

C21_QuotedGreaterThan ==
    (finalized /\ doc \in AttrTagDocs) =>
        /\ events[1] =
               TagOpenNode(<<"a">>,
                           Slice(doc, 2,
                                 IF EndsSelfClosing(doc)
                                 THEN Len(doc) - 2 ELSE Len(doc) - 1),
                           EndsSelfClosing(doc))
        /\ Cardinality({i \in 1 .. Len(events) :
                            events[i].event = "tagopen"}) = 1

(* C22 -- Leading whitespace in a tag: when the text handed to the loop    *)
(* starts with '<' followed by a whitespace character and holds a '>'      *)
(* further on, the next event is the error                                 *)
(* "Tag names may not start with whitespace", the step emits no tagopen    *)
(* event and the tag stack is left as it was.                              *)
LeadingWhitespaceStep(input) ==
    (/\ CharAt(input, 0) = "<"
     /\ CharAt(input, 1) \in RegexWhitespace
     /\ IndexOf(input, <<">">>, 1) # -1) =>
        /\ Len(events') > Len(events)
        /\ SubSeq(events', 1, Len(events)) = events
        /\ events'[Len(events) + 1] =
               Error("Tag names may not start with whitespace", <<>>)
        /\ \A j \in (Len(events) + 1) .. Len(events') :
               events'[j].event # "tagopen"
        /\ _tagStack' = _tagStack

C22_LeadingWhitespace ==
    [][LeadingWhitespaceStep(_unwait(_waiting) \o StepChunk)]_vars

C22_Witness ==
    /\ doc = <<"<", " ", "a", ">">>
    /\ ~ending
    /\ events = <<Error("Tag names may not start with whitespace", <<>>)>>
    /\ _tagStack = <<>>

-----------------------------------------------------------------------------
(* The static helper parseEntities of src/lib/static/entities.js.  A       *)
(* character is a UTF-16 code unit: the printable ASCII characters and     *)
(* the tab, line feed, form feed and carriage return are the one-character *)
(* strings used everywhere else, and the code unit n of any other value is *)
(* written "U+n", n in decimal.                                            *)

\* A call of parseEntities is given a text of at most MaxEntityPieces
\* pieces, or one numeric reference of at most MaxDigits digits.
MaxEntityPieces == 4

MaxDigits == 5

\* The characters of the code units 32 to 126, in order (the grave accent,
\* code unit 96, is written as the other characters without a literal).
ASCII ==
    <<" ", "!", "\"", "#", "$", "%", "&", "'", "(", ")", "*", "+",
       ",", "-", ".", "/", "0", "1", "2", "3", "4", "5", "6", "7",
       "8", "9", ":", ";", "<", "=", ">", "?", "@", "A", "B", "C",
       "D", "E", "F", "G", "H", "I", "J", "K", "L", "M", "N", "O",
       "P", "Q", "R", "S", "T", "U", "V", "W", "X", "Y", "Z", "[",
       "\\", "]", "^", "_", "U+96", "a", "b", "c", "d", "e", "f", "g",
       "h", "i", "j", "k", "l", "m", "n", "o", "p", "q", "r", "s",
       "t", "u", "v", "w", "x", "y", "z", "{", "|", "}", "~">>

\* The character whose code unit is u, for u in 0 .. 65535.
CharOfCode(u) ==
    IF u >= 32 /\ u <= 126 THEN ASCII[u - 31]
    ELSE IF u = 9 THEN "\t"
    ELSE IF u = 10 THEN "\n"
    ELSE IF u = 12 THEN "\f"
    ELSE IF u = 13 THEN "\r"
    ELSE "U+" \o ToString(u)

\* String.fromCharCode(value): the value is reduced to 16 bits.
fromCharCode(value) == <<CharOfCode(value % 65536)>>

\* The value of a character as a digit, 36 when it is not one.
DigitValue(c) ==
    LET lower == <<"0", "1", "2", "3", "4", "5", "6", "7", "8", "9",
                   "a", "b", "c", "d", "e", "f">>
        upper == <<"A", "B", "C", "D", "E", "F">>
    IN  IF \E i \in 1 .. 16 : lower[i] = c
        THEN (CHOOSE i \in 1 .. 16 : lower[i] = c) - 1
        ELSE IF \E i \in 1 .. 6 : upper[i] = c
        THEN (CHOOSE i \in 1 .. 6 : upper[i] = c) + 9
        ELSE 36

\* The result of parseInt: NaN, or a number.
NaN == [isNaN |-> TRUE, value |-> 0]

Number(value) == [isNaN |-> FALSE, value |-> value]

\* isNaN(value)
isNaN(value) == value.isNaN

\* The digits of the radix read from position i on: how many there are and
\* their value after the digits already read.
RECURSIVE ReadDigits(_, _, _, _, _)
ReadDigits(string, i, radix, count, value) ==
    IF DigitValue(CharAt(string, i)) < radix
    THEN ReadDigits(string, i + 1, radix, count + 1,
                    value * radix + DigitValue(CharAt(string, i)))
    ELSE [count |-> count, value |-> value]

\* The position of the first character from i on that is not whitespace.
RECURSIVE SkipWhiteSpace(_, _)
SkipWhiteSpace(string, i) ==
    IF CharAt(string, i) \in RegexWhitespace
    THEN SkipWhiteSpace(string, i + 1)
    ELSE i

\* parseInt(string, radix) from the sign on: the sign, for radix 16 an
\* optional 0x or 0X, then the longest run of digits; NaN when it is empty.
SignedInteger(string, i, radix) ==
    LET sign == IF CharAt(string, i) = "-" THEN -1 ELSE 1
        afterSign == IF CharAt(string, i) \in {"+", "-"} THEN i + 1 ELSE i
        start == IF /\ radix = 16
                    /\ CharAt(string, afterSign) = "0"
                    /\ CharAt(string, afterSign + 1) \in {"x", "X"}
                 THEN afterSign + 2 ELSE afterSign
        digits == ReadDigits(string, start, radix, 0, 0)
    IN  IF digits.count = 0 THEN NaN ELSE Number(sign * digits.value)

\* parseInt(string, radix), for radix 10 or 16
parseInt(string, radix) ==
    SignedInteger(string, SkipWhiteSpace(string, 0), radix)

\* What is pushed for a numeric entity whose payload parseInt gave value.
NumericEntity(entity, value) ==
    IF isNaN(value) THEN entity \o <<";">>
    ELSE fromCharCode(value.value)

\* What is pushed for the entity, the text from '&' up to the ';'.
Replacement(entity) ==
    IF entity = <<"&", "q", "u", "o", "t">> THEN <<"\"">>
    ELSE IF entity = <<"&", "a", "m", "p">> THEN <<"&">>
    ELSE IF entity = <<"&", "a", "p", "o", "s">> THEN <<"'">>
    ELSE IF entity = <<"&", "l", "t">> THEN <<"<">>
    ELSE IF entity = <<"&", "g", "t">> THEN <<">">>
    ELSE IF CharAt(entity, 1) # "#" THEN entity \o <<";">>
    ELSE IF CharAt(entity, 2) = "x"
    THEN NumericEntity(entity, parseInt(SliceFrom(entity, 3), 16))
    ELSE NumericEntity(entity, parseInt(SliceFrom(entity, 2), 10))

\* Variant of EntitiesTail that joins the parts without the rest of the
\* input.
EntitiesTail_withoutRest(input, position, parts) == Join(parts, <<>>)

\* What follows the loop: the rest of the input from position is pushed and
\* the parts are joined.
EntitiesTail(input, position, parts) ==
    Join(IF position < Len(input)
         THEN Append(parts, SliceFrom(input, position))
         ELSE parts,
         <<>>)

RECURSIVE EntitiesLoop(_, _, _)

\* The body of the loop for the '&' at next, after what precedes it was
\* pushed; end is the position of the ';' that follows.
Entity(input, position, next, end, parts) ==
    IF end = -1 THEN EntitiesTail(input, position, parts)
    ELSE EntitiesLoop(input, end + 1,
                      Append(parts, Replacement(Slice(input, next, end))))

\* One round of the loop, next being input.indexOf('&', position).
EntitiesRound(input, position, next, parts) ==
    IF next = -1 THEN EntitiesTail(input, position, parts)
    ELSE Entity(input, position, next, IndexOf(input, <<";">>, next),
                IF next > position
                THEN Append(parts, Slice(input, position, next))
                ELSE parts)

\* while ((next = input.indexOf('&', position)) !== -1) { ... }
EntitiesLoop(input, position, parts) ==
    EntitiesRound(input, position, IndexOf(input, <<"&">>, position), parts)

\* Saxophone.parseEntities(input)
parseEntities(input) == Returns(EntitiesLoop(input, 0, <<>>))

\* The pieces the texts are made of.
EntityPieces ==
    {<<"&">>, <<";">>, <<"&", "#">>, <<"#">>, <<"x">>, <<"1">>, <<"g">>, <<"a">>}

\* Text and references to the predefined entities.
PredefinedPieces ==
    {<<"a">>, <<"&">>,
     <<"&", "a", "m", "p", ";">>, <<"&", "l", "t", ";">>, <<"&", "g", "t", ";">>,
     <<"&", "q", "u", "o", "t", ";">>, <<"&", "a", "p", "o", "s", ";">>}

\* Numeric references with one to MaxDigits digits.
DecimalDigits == {<<"0">>, <<"1">>, <<"6">>, <<"9">>}

HexDigits == {<<"0">>, <<"1">>, <<"A">>, <<"f">>}

NumericTexts ==
    {<<"&", "#">> \o d \o <<";">> :
         d \in ConcatsOf(DecimalDigits, MaxDigits) \ {<<>>}}
        \cup {<<"&", "#", "x">> \o h \o <<";">> :
                  h \in ConcatsOf(HexDigits, MaxDigits) \ {<<>>}}

\* Numeric references whose digits come after a character parseInt skips.
SpacedNumericTexts ==
    {<<"&", "#", c, "6", "5", ";">> : c \in {" ", "U+11", "U+160"}}

EntityTexts ==
    ConcatsOf(EntityPieces, MaxEntityPieces)
        \cup ConcatsOf(PredefinedPieces, MaxEntityPieces)
        \cup NumericTexts
        \cup SpacedNumericTexts

EntitiesInit ==
    /\ argument \in EntityTexts
    /\ returned = NotCalled
    /\ doc = <<>>
    /\ rest = <<>>
    /\ _waiting = Null
    /\ _tagStack = <<>>
    /\ events = <<>>
    /\ ending = FALSE
    /\ finalized = FALSE
    /\ unwinding = <<>>

\* Saxophone.parseEntities(argument) is called.
CallParseEntities ==
    /\ returned = NotCalled
    /\ returned' = parseEntities(argument)
    /\ UNCHANGED <<argument, doc, rest, _waiting, _tagStack, events, ending,
                   finalized, unwinding>>

EntitiesNext == CallParseEntities

EntitiesSpec == EntitiesInit /\ [][EntitiesNext]_vars

-----------------------------------------------------------------------------
(* Vocabulary of the properties of parseAttrs.                             *)

Called == returned # NotCalled

\* The mapping that has the given entries.
MappingOf(entries) ==
    [n \in {entries[i][1] : i \in 1 .. Len(entries)} |->
         LET i == CHOOSE i \in 1 .. Len(entries) : entries[i][1] = n
         IN  entries[i][2]]

\* A run of characters that are neither whitespace nor '='.
NameChars(s) == \A i \in 1 .. Len(s) : s[i] # "=" /\ ~isWhitespace(s[i])

\* The first k characters of the text are whole attributes and whitespace:
\* parseAttrs is at the top of its loop at position k.
Boundary(text, k) == parseAttrs(Slice(text, 0, k)).state = "returned"

(* C23 -- parseAttrs round-trip: when the argument is the serialization,   *)
(* as name="value" pairs joined by single spaces, of a mapping whose names *)
(* hold no whitespace and no '=' and whose values hold no quote character, *)
(* the call returns a mapping equal to that mapping (the empty mapping for *)
(* the empty string).                                                      *)
C23_RoundTrip ==
    Called =>
        \A e \in Entries :
            argument = Serialize(e) => returned = Returns(MappingOf(e))

(* C24 -- parseAttrs missing value: when the argument ends while parseAttrs *)
(* is expecting '=' after an attribute name (the text ends with a name     *)
(* that starts at an attribute boundary) or expecting the value after '='  *)
(* (it ends with such a name and '='), the call throws                     *)
(* "Expected a value for the attribute" and returns no mapping.            *)
EndsExpectingEquals(text, k) ==
    /\ Boundary(text, k)
    /\ k < Len(text)
    /\ NameChars(SliceFrom(text, k))

EndsExpectingValue(text, k) ==
    /\ Boundary(text, k)
    /\ k < Len(text) - 1
    /\ NameChars(Slice(text, k, Len(text) - 1))
    /\ CharAt(text, Len(text) - 1) = "="

C24_MissingValue ==
    (/\ Called
     /\ \E k \in 0 .. Len(argument) :
            EndsExpectingEquals(argument, k) \/ EndsExpectingValue(argument, k))
        => returned = Throws("Expected a value for the attribute")

(* C25 -- parseAttrs name whitespace: when a whitespace character (SPACE,  *)
(* TAB, CR, LF) follows one or more name characters that start at an       *)
(* attribute boundary, the call throws                                     *)
(* "Attribute names may not contain whitespace"; and a whitespace          *)
(* character at an attribute boundary is skipped: the call gives what it   *)
(* gives on the argument without that character.                           *)
WhitespaceInName(text, k, w) ==
    /\ Boundary(text, k)
    /\ k < w
    /\ NameChars(Slice(text, k, w))
    /\ isWhitespace(CharAt(text, w))

WhitespaceSkipped(text, k) ==
    (Boundary(text, k) /\ isWhitespace(CharAt(text, k))) =>
        returned = parseAttrs(Slice(text, 0, k) \o SliceFrom(text, k + 1))

C25_NameWhitespace ==
    Called =>
        /\ (\E k, w \in 0 .. Len(argument) : WhitespaceInName(argument, k, w))
               => returned = Throws("Attribute names may not contain whitespace")
        /\ \A k \in 0 .. Len(argument) : WhitespaceSkipped(argument, k)

C25_Witness ==
    /\ argument = <<" ", "a", "\t", "=">>
    /\ returned = Throws("Attribute names may not contain whitespace")

(* C26 -- parseAttrs quote matching: when a name that starts at an         *)
(* attribute boundary is followed by '=' and a quote character, the value  *)
(* is what lies between that quote and the next occurrence of the same     *)
(* quote character, the other quote character included: if what follows    *)
(* the closing quote parses to a mapping without that name, the call       *)
(* returns a mapping that gives the name this value.  If the same quote    *)
(* character does not occur again, the call throws                         *)
(* "Unclosed attribute value".                                             *)
QuotedValue(text, name, position, endQuote) ==
    IF endQuote = -1
    THEN returned = Throws("Unclosed attribute value")
    ELSE LET after == parseAttrs(SliceFrom(text, endQuote + 1))
         IN  (/\ after.state = "returned"
              /\ name \notin DOMAIN after.value
              /\ name # ProtoName) =>
                 /\ returned.state = "returned"
                 /\ name \in DOMAIN returned.value
                 /\ returned.value[name] = Slice(text, position, endQuote)

QuoteMatching(text, k, eq) ==
    (/\ Boundary(text, k)
     /\ k <= eq
     /\ NameChars(Slice(text, k, eq))
     /\ CharAt(text, eq) = "="
     /\ CharAt(text, eq + 1) \in {"\"", "'"}) =>
        QuotedValue(text, Slice(text, k, eq), eq + 2,
                    IndexOf(text, <<CharAt(text, eq + 1)>>, eq + 2))

C26_QuoteMatching ==
    Called => \A k, eq \in 0 .. Len(argument) : QuoteMatching(argument, k, eq)

C26_Witness ==
    /\ argument = <<"a", "=", "\"", "'", "\"">>
    /\ returned = Returns([n \in {<<"a">>} |-> <<"'">>])

-----------------------------------------------------------------------------
(* Vocabulary of the properties of parseEntities.                          *)

\* The names of the predefined entities and what they stand for.
PredefinedNames ==
    {<<"a", "m", "p">>, <<"l", "t">>, <<"g", "t">>,
     <<"q", "u", "o", "t">>, <<"a", "p", "o", "s">>}

PredefinedValue(name) ==
    IF name = <<"a", "m", "p">> THEN <<"&">>
    ELSE IF name = <<"l", "t">> THEN <<"<">>
    ELSE IF name = <<"g", "t">> THEN <<">">>
    ELSE IF name = <<"q", "u", "o", "t">> THEN <<"\"">>
    ELSE <<"'">>

\* The text is made of characters other than '&', of references to the
\* predefined entities, and possibly of a last part that starts with '&'
\* and holds no ';'.
RECURSIVE OnlyPredefined(_)
OnlyPredefined(text) ==
    IF text = <<>> THEN TRUE
    ELSE IF text[1] # "&" THEN OnlyPredefined(Tail(text))
    ELSE IF IndexOf(text, <<";">>, 0) = -1 THEN TRUE
    ELSE /\ Slice(text, 1, IndexOf(text, <<";">>, 0)) \in PredefinedNames
         /\ OnlyPredefined(SliceFrom(text, IndexOf(text, <<";">>, 0) + 1))

\* Such a text with each reference replaced and everything else copied.
RECURSIVE PredefinedExpansion(_)
PredefinedExpansion(text) ==
    IF text = <<>> THEN <<>>
    ELSE IF text[1] # "&" THEN <<text[1]>> \o PredefinedExpansion(Tail(text))
    ELSE IF IndexOf(text, <<";">>, 0) = -1 THEN text
    ELSE PredefinedValue(Slice(text, 1, IndexOf(text, <<";">>, 0)))
             \o PredefinedExpansion(SliceFrom(text, IndexOf(text, <<";">>, 0) + 1))

(* C27 -- parseEntities predefined entities: when every '&' of the         *)
(* argument that is followed by a ';' starts a reference to one of the     *)
(* five predefined entities, the call returns the argument with each       *)
(* reference replaced by '&', '<', '>', '"', "'" respectively and every    *)
(* other character copied unchanged and in order.                          *)
C27_PredefinedEntities ==
    (Called /\ OnlyPredefined(argument)) =>
        returned = Returns(PredefinedExpansion(argument))

\* The value of a run of digits of the radix.
RECURSIVE ValueOf(_, _)
ValueOf(digits, radix) ==
    IF digits = <<>> THEN 0
    ELSE ValueOf(Front(digits), radix) * radix + DigitValue(digits[Len(digits)])

AllDigits(s, radix) ==
    s # <<>> /\ \A i \in 1 .. Len(s) : DigitValue(s[i]) < radix

\* The UTF-16 string of the code point n: one code unit up to 0xFFFF, a
\* surrogate pair above.
CodePoint(n) ==
    IF n < 65536 THEN <<CharOfCode(n)>>
    ELSE <<CharOfCode(55296 + ((n - 65536) \div 1024)),
           CharOfCode(56320 + ((n - 65536) % 1024))>>

\* The code points are the numbers below 17 * 2^16.
IsCodePoint(n) == n < 17 * 65536

\* The payload of the argument when it is one numeric reference: what lies
\* between '&#' (from = 2) or '&#x' (from = 3) and the final ';'.
Payload(text, from) == Slice(text, from, Len(text) - 1)

IsNumericReference(text, from, radix) ==
    /\ Slice(text, 0, 2) = <<"&", "#">>
    /\ from = 3 => CharAt(text, 2) = "x"
    /\ CharAt(text, Len(text) - 1) = ";"
    /\ AllDigits(Payload(text, from), radix)
    /\ IsCodePoint(ValueOf(Payload(text, from), radix))

(* C28 -- parseEntities numeric references: when the argument is '&#N;'    *)
(* with N a decimal integer, or '&#xH;' with H a hexadecimal integer, that *)
(* is the number of a code point, the call returns the string of that one  *)
(* code point, for values above 0xFFFF too.                                *)
C28_NumericReferences ==
    Called =>
        /\ IsNumericReference(argument, 2, 10) =>
               returned = Returns(CodePoint(ValueOf(Payload(argument, 2), 10)))
        /\ IsNumericReference(argument, 3, 16) =>
               returned = Returns(CodePoint(ValueOf(Payload(argument, 3), 16)))

\* The position of the last occurrence of the character, -1 without one.
LastIndexOf(text, c) ==
    LET hits == {i \in 0 .. (Len(text) - 1) : text[i + 1] = c}
    IN  IF hits = {} THEN -1
        ELSE CHOOSE i \in hits : \A j \in hits : j <= i

\* The position of the first '&' that has no ';' after it, -1 without one.
FirstUnterminated(text) == IndexOf(text, <<"&">>, LastIndexOf(text, ";") + 1)

Unterminated(text, at) ==
    at # -1 =>
        returned = Returns(parseEntities(Slice(text, 0, at)).value
                               \o SliceFrom(text, at))

(* C29 -- parseEntities unterminated reference: when an '&' of the         *)
(* argument has no ';' after it, the call returns what it returns for the  *)
(* text before the first such '&', followed by the argument from that '&'  *)
(* to its end as it is; with no ';' at all in the argument, it returns the *)
(* argument.                                                               *)
C29_UnterminatedReference ==
    Called =>
        /\ Unterminated(argument, FirstUnterminated(argument))
        /\ LastIndexOf(argument, ";") = -1 => returned = Returns(argument)

\* What lies between '&' and ';' is the name of a predefined entity, or '#'
\* and a decimal integer, or '#x' and a hexadecimal integer.
Recognized(body) ==
    \/ body \in PredefinedNames
    \/ CharAt(body, 0) = "#" /\ AllDigits(SliceFrom(body, 1), 10)
    \/ /\ CharAt(body, 0) = "#"
       /\ CharAt(body, 1) = "x"
       /\ AllDigits(SliceFrom(body, 2), 16)

\* The argument holds one '&', at amp, followed by a ';', first at semi.
OneReference(text, amp, semi) ==
    /\ amp # -1
    /\ semi # -1
    /\ IndexOf(text, <<"&">>, amp + 1) = -1

UnrecognizedReference(text, amp, semi) ==
    (OneReference(text, amp, semi) /\ ~Recognized(Slice(text, amp + 1, semi)))
        => returned = Returns(text)

UnrecognizedAt(text, amp) ==
    UnrecognizedReference(text, amp, IndexOf(text, <<";">>, amp))

(* C30 -- parseEntities leaves unrecognized references untouched: every    *)
(* call returns a string, and when the only '&' of the argument starts a   *)
(* terminated reference that is neither one of the five predefined names   *)
(* nor '#' and a decimal integer nor '#x' and a hexadecimal integer, the   *)
(* call returns the argument as it is.                                     *)
C30_UnrecognizedReferences ==
    Called =>
        /\ returned.state = "returned"
        /\ UnrecognizedAt(argument, IndexOf(argument, <<"&">>, 0))

(* C31 -- parseEntities is the identity on plain text: when the argument   *)
(* holds no '&', the call returns the argument.                            *)
C31_PlainTextIdentity ==
    (Called /\ IndexOf(argument, <<"&">>, 0) = -1) =>
        returned = Returns(argument)

C31_Witness ==
    /\ argument = <<"a", ";", "#", "1">>
    /\ returned = Returns(<<"a", ";", "#", "1">>)

(* C32 -- Exact CDATA opener: when the text written so far starts with     *)
(* '<![' and goes on with characters that are not the beginning of         *)
(* 'CDATA[' (as in '<![A[' or '<![DATA['), it is not taken for the start   *)
(* of a CDATA section: the first event is the error                        *)
(* "Unrecognized sequence: <![", no CDATA section is pending, and there is *)
(* neither a cdata event nor an "Unclosed CDATA section" error, also once  *)
(* the stream is ended.                                                    *)
InvalidCDATAOpener(d) ==
    /\ StartsWith(d, <<"<", "!", "[">>)
    /\ ~Compatible(d, <<"<", "!", "[", "C", "D", "A", "T", "A", "[">>)

C32_ExactCDATAOpener ==
    InvalidCDATAOpener(Written) =>
        /\ events # <<>>
        /\ events[1] = Error("Unrecognized sequence: <!", <<"[">>)
        /\ _waiting.token # "cdata"
        /\ \A i \in 1 .. Len(events) :
               /\ events[i].event # "cdata"
               /\ events[i] # Error("Unclosed CDATA section", <<>>)

(* C33 -- Faithful tag slices: for every tagopen event,                    *)
(* '<' + name + attrs + ('/' when isSelfClosing) + '>' is a piece of the   *)
(* document that runs from a '<' to the next '>', and name holds no        *)
(* whitespace character; for every tagclose event so is '</' + name + '>'. *)
(* While no error was reported and the stream is not ended, that piece is  *)
(* the text at the place of the event: it starts where the texts of the    *)
(* events before it end.                                                   *)
IsTagEvent(e) == e.event \in {"tagopen", "tagclose"}

\* The text t is in d, starts with '<' and ends with its only '>'.
TagOf(d, t) ==
    /\ IndexOf(d, t, 0) # -1
    /\ CharAt(t, 0) = "<"
    /\ IndexOf(t, <<">">>, 0) = Len(t) - 1

\* Where the text of the i-th event starts when the events account for the
\* text written.
Offset(evs, i) == Len(TokenSources(SubSeq(evs, 1, i - 1)))

FaithfulSlice(e, offset) ==
    /\ TagOf(doc, TokenSource(e))
    /\ e.event = "tagopen" =>
           \A j \in 1 .. Len(e.name) : e.name[j] \notin RegexWhitespace
    /\ (~ending /\ ~HasError(events)) =>
           Slice(Written, offset, offset + Len(TokenSource(e))) = TokenSource(e)

C33_FaithfulTagSlices ==
    \A i \in 1 .. Len(events) :
        IsTagEvent(events[i]) => FaithfulSlice(events[i], Offset(events, i))

C33_Witness ==
    /\ doc = <<"<", "a", " ", "b", "=", "\"", "a", "\"", "/", ">">>
    /\ rest = <<>>
    /\ events = <<TagOpenNode(<<"a">>, <<" ", "b", "=", "\"", "a", "\"">>, TRUE)>>

(* C34 -- Closing-tag names are compared verbatim: when the document is    *)
(* the tag <a> followed by a closing tag, then once it is written the      *)
(* first event is the tagopen of a and the second is the tagclose of a if  *)
(* the text between '</' and '>' is exactly 'a'; if it differs from 'a' in *)
(* any character (as in '</a >'), the second event is the error            *)
(* "Unclosed tag: a" and there is no tagclose event.                       *)
C34_VerbatimClosingName ==
    (doc \in CloseTagDocs /\ rest = <<>>) =>
        /\ Len(events) >= 2
        /\ events[1] = TagOpenNode(<<"a">>, <<>>, FALSE)
        /\ IF Slice(doc, 5, Len(doc) - 1) = <<"a">>
           THEN events[2] = TagCloseNode(<<"a">>)
           ELSE /\ events[2] = Error("Unclosed tag: ", <<"a">>)
                /\ \A i \in 1 .. Len(events) : events[i].event # "tagclose"

C34_Witness ==
    /\ doc = <<"<", "a", ">", "<", "/", "a", " ", ">">>
    /\ rest = <<>>
    /\ ~ending
    /\ events = <<TagOpenNode(<<"a">>, <<>>, FALSE),
                  Error("Unclosed tag: ", <<"a">>)>>

(* C35 -- Finish checks pending before the stack: when the stream is ended *)
(* without an earlier error, with an unterminated CDATA section, comment,  *)
(* processing instruction or tag pending and with tags still open, the     *)
(* error that ends the stream is the one of the pending token ("Unclosed   *)
(* CDATA section", "Unclosed comment", "Unclosed processing instruction"   *)
(* or "Unclosed tag") and no "Unclosed tags: ..." error is reported.       *)
PendingMessage(token) ==
    IF token = "tagopen" THEN "Unclosed tag" ELSE UnclosedMessage(token)

C35_PendingBeforeStack ==
    (/\ finalized
     /\ _waiting.token \in {"cdata", "comment", "processinginstruction", "tagopen"}
     /\ _tagStack # <<>>
     /\ ~HasError(Front(events))) =>
        /\ events[Len(events)] = Error(PendingMessage(_waiting.token), <<>>)
        /\ \A i \in 1 .. Len(events) :
               IsError(events[i]) => events[i].message # "Unclosed tags: "

(* C36 -- parseAttrs unquoted value: when a name that starts at an         *)
(* attribute boundary (after any number of well-formed attributes) is      *)
(* followed by '=' and by a character that is neither '"' nor "'", the     *)
(* call throws "Attribute values should be quoted" and returns no mapping. *)
UnquotedValue(text, k, eq) ==
    /\ Boundary(text, k)
    /\ k <= eq
    /\ NameChars(Slice(text, k, eq))
    /\ CharAt(text, eq) = "="
    /\ eq + 1 < Len(text)
    /\ CharAt(text, eq + 1) \notin {"\"", "'"}

C36_UnquotedValue ==
    (Called /\ \E k, eq \in 0 .. Len(argument) : UnquotedValue(argument, k, eq))
        => returned = Throws("Attribute values should be quoted")

C36_Witness ==
    /\ argument = <<"a", "=", "\"", "b", "\"", " ", "b", "=", "a", "\"">>
    /\ returned = Throws("Attribute values should be quoted")

(* C37 -- Every feed call terminates: whatever is pending and whatever     *)
(* part of the rest of the document comes as the next chunk, every pass    *)
(* through the body of the loop of _parseChunk that goes back to the loop  *)
(* test leaves the cursor strictly further than it found it, so the loop   *)
(* ends (stall, error or end of the text) after at most as many passes as  *)
(* the text has characters; and the call reports at most one error.        *)
RECURSIVE CursorAdvances(_, _, _, _, _)

ErrorCount(evs) == Cardinality({i \in 1 .. Len(evs) : IsError(evs[i])})

\* The pass that started at chunkPos ended with step: it goes back to the
\* loop test with the cursor further on, or it leaves the loop and the call
\* has reported at most one error.
AdvancesFrom(input, chunkPos, step, passes) ==
    IF Continues(step)
    THEN /\ step.chunkPos > chunkPos
         /\ CursorAdvances(input, step.chunkPos, step.tagStack, step.events,
                           passes + 1)
    ELSE ErrorCount(Callback(step).events) <= ErrorCount(events) + 1

CursorAdvances(input, chunkPos, tagStack, emitted, passes) ==
    /\ passes <= Len(input)
    /\ chunkPos < Len(input) =>
           AdvancesFrom(input, chunkPos,
                        Iteration(input, chunkPos, tagStack, emitted), passes)
    /\ ~(chunkPos < Len(input)) => ErrorCount(emitted) = ErrorCount(events)

FeedTerminates(chunk) ==
    CursorAdvances(_unwait(_waiting) \o chunk, 0, _tagStack, events, 0)

C37_FeedTerminates ==
    \A n \in 0 .. Len(rest) : FeedTerminates(SubSeq(rest, 1, n))

C37_Witness ==
    /\ doc = <<"<", "a", ">", "<", "/", "a", ">", "<", "b", "/", ">">>
    /\ rest = <<>>
    /\ ~ending
    /\ Len(events) = 3
    /\ ~HasError(events)

(* C38 -- Pending holds at most one incomplete token: in every state the   *)
(* pending data is empty, or a text that is not empty and holds no '<', or *)
(* the bare '<!' of a markup declaration, or a text of another kind that   *)
(* starts with '<' and with the opening delimiter of its kind as far as it *)
(* has arrived, and holds no terminator of its kind after that delimiter:  *)
(* ']]>' for a CDATA section, '--' for a comment, '?>' for a processing    *)
(* instruction, '>' for a tag.                                             *)
PendingText(data) == data # <<>> /\ IndexOf(data, <<"<">>, 0) = -1

PendingToken(data, opener, terminator) ==
    /\ CharAt(data, 0) = "<"
    /\ Compatible(data, opener)
    /\ IndexOf(data, terminator, Len(opener)) = -1

PendingShape(waiting) ==
    \/ waiting = Null
    \/ waiting.token = "text" /\ PendingText(waiting.data)
    \/ waiting.token = "markupDeclaration" /\ waiting.data = <<"<", "!">>
    \/ /\ waiting.token = "cdata"
       /\ PendingToken(waiting.data,
                       <<"<", "!", "[", "C", "D", "A", "T", "A", "[">>,
                       <<"]", "]", ">">>)
    \/ /\ waiting.token = "comment"
       /\ PendingToken(waiting.data, <<"<", "!", "-", "-">>, <<"-", "-">>)
    \/ /\ waiting.token = "processinginstruction"
       /\ PendingToken(waiting.data, <<"<", "?">>, <<"?", ">">>)
    \/ /\ waiting.token = "tagopen"
       /\ PendingToken(waiting.data, <<"<">>, <<">">>)

C38_PendingShape == PendingShape(_waiting)

(* C39 -- Feeding an empty chunk is a no-op: in every state in which no    *)
(* error was reported, writing the empty chunk (which is also what _final  *)
(* does first) emits no event, reports no error and leaves the pending     *)
(* kind and data and the open tags as they are.                            *)
NoOp(r) ==
    /\ r.events = events
    /\ r.error = NoError
    /\ r.waiting = _waiting
    /\ r.tagStack = _tagStack

C39_EmptyChunkNoOp == ~HasError(events) => NoOp(_write(<<>>))

C39_Witness ==
    /\ doc = <<"<", "a", ">", "<", "!", "-", "-", "b">>
    /\ rest = <<>>
    /\ ~ending
    /\ events = <<TagOpenNode(<<"a">>, <<>>, FALSE)>>
    /\ _waiting = _wait("comment", <<"<", "!", "-", "-", "b">>)
    /\ _tagStack = <<<<"a">>>>

(* C40 -- State after an error inside a chunk: when the write of a chunk   *)
(* reports an error, the events of the step are the tokens that lie before *)
(* the place of the error in the text handed to the loop (pending data     *)
(* followed by the chunk), in order and without a gap, followed by the     *)
(* error, which is at a '<'; nothing is pending afterwards; the open tags  *)
(* are what the tokens of the step made of them, less the tag popped by a  *)
(* mismatched close; the call has line 354 left to run exactly when the    *)
(* error is the mismatched-close error "Unclosed tag: ...", and the stack  *)
(* is empty once that call is over.                                        *)
\* The open tags after replaying the events on the given stack.
RECURSIVE OpenTagsFrom(_, _)
OpenTagsFrom(tagStack, evs) ==
    IF evs = <<>> THEN tagStack
    ELSE IF evs[Len(evs)].event = "tagopen" /\ ~evs[Len(evs)].isSelfClosing
    THEN Append(OpenTagsFrom(tagStack, Front(evs)), evs[Len(evs)].name)
    ELSE IF evs[Len(evs)].event = "tagclose"
    THEN Popped(OpenTagsFrom(tagStack, Front(evs)))
    ELSE OpenTagsFrom(tagStack, Front(evs))

\* The step emitted the tokens and then reported the error.
AfterError(input, tokens, error) ==
    /\ \A j \in 1 .. Len(tokens) : tokens[j].event \in TokenEvents
    /\ StartsWith(input, TokenSources(tokens))
    /\ CharAt(input, Len(TokenSources(tokens))) = "<"
    /\ _waiting' = Null
    /\ _tagStack' = IF error.message = "Unclosed tag: "
                    THEN Popped(OpenTagsFrom(_tagStack, tokens))
                    ELSE OpenTagsFrom(_tagStack, tokens)
    /\ IF error.message = "Unclosed tag: "
       THEN LeftToEmptyStack
       ELSE ~LeftToEmptyStack

ErrorInChunk(input, new) ==
    /\ (~finalized' /\ HasError(new)) =>
           /\ IsError(new[Len(new)])
           /\ SubSeq(events', 1, Len(events)) = events
           /\ AfterError(input, Front(new), new[Len(new)])
    /\ MismatchedCloseOver =>
           (_tagStack' = <<>> /\ new = <<>> /\ _waiting' = _waiting)

C40_StateAfterError ==
    [][ErrorInChunk(_unwait(_waiting) \o StepChunk,
                    SubSeq(events', Len(events) + 1, Len(events')))]_vars

=============================================================================
